---------------------------- MODULE Spec2Model ----------------------------
(***************************************************************************)
(* CAPTCHA auto-solver, background service worker v8.1                     *)
(* (src/unnamed/part_000): the three-tier failover state machine, the      *)
(* cooldown recovery, the retryability policy and the solve orchestrator,  *)
(* with overlapping solve_captcha requests sharing failoverState.          *)
(*                                                                         *)
(* JavaScript strings that the code inspects (error messages, raw provider *)
(* text) are sequences of one-character strings, so that includes(), trim  *)
(* and replace are computed and not assumed.                               *)
(***************************************************************************)
EXTENDS Integers, Sequences, FiniteSets, TLC

(***************************************************************************)
(* Bounds of the model                                                     *)
(***************************************************************************)
\* solve_captcha messages the content scripts send; they may overlap
NumReqs == 2

\* the clock is read at instants 0..MaxInstant (see Instants)
MaxInstant == 2

\* Date.now() when the worker starts
StartTime == 1

\* times the browser starts the v16 worker
MaxStarts == 2

\* characters of the longest text handed to cleanCaptchaText
MaxRawLen == 9

\* provider calls counted for one request
MaxInvoked == 10

\* initiateSolver runs of the content script that can be pending together
MaxRuns == 2

(***************************************************************************)
(* JavaScript values                                                       *)
(***************************************************************************)
\* null (failoverState.lastFailoverTime, lastError)
Null == -1

\* undefined (error.statusCode of an error that carries none)
Undefined == -2

\* a number or null in a boolean context: null and 0 are falsy
TruthyNum(v) == v # Null /\ v # 0

\* a string in a boolean context: "" (and an absent value, read as "") is falsy
TruthyStr(s) == s # ""

(***************************************************************************)
(* Configuration                                                           *)
(***************************************************************************)
tier1Models == <<"google/gemini-2.0-flash-exp:free", "google/gemini-2.0-pro-exp-02-05:free">>

tier2Models == <<"amazon/nova-lite-v1:1.0", "mistralai/mistral-small-24b-instruct-2501:free">>

cooldownMs == 5 * 60 * 1000

triggerCodes == {429, 503, 404, 400, 500, 502}

timeoutMs == 35000

\* CONFIG.maxSolveAttempts of the content script
maxSolveAttempts == 5

maxPollAttempts == 20

(***************************************************************************)
(* Strings                                                                 *)
(***************************************************************************)
Alnum ==
    {"A", "B", "C", "D", "E", "F", "G", "H", "I", "J", "K", "L", "M", "N",
      "O", "P", "Q", "R", "S", "T", "U", "V", "W", "X", "Y", "Z", "a", "b",
      "c", "d", "e", "f", "g", "h", "i", "j", "k", "l", "m", "n", "o", "p",
      "q", "r", "s", "t", "u", "v", "w", "x", "y", "z", "0", "1", "2", "3",
      "4", "5", "6", "7", "8", "9"}

Whitespace == {" ", "\t", "\n", "\r"}

DigitChar == <<"0", "1", "2", "3", "4", "5", "6", "7", "8", "9">>

\* String(n) of a non-negative integer, as template literals format it
RECURSIVE NumToString(_)
NumToString(n) ==
    IF n < 10 THEN <<DigitChar[n + 1]>>
    ELSE NumToString(n \div 10) \o <<DigitChar[(n % 10) + 1]>>

\* String.prototype.includes
Includes(s, sub) ==
    \E i \in 0..(Len(s) - Len(sub)) : SubSeq(s, i + 1, i + Len(sub)) = sub

\* String.prototype.trim
RECURSIVE TrimStart(_)
TrimStart(s) ==
    IF s # <<>> /\ Head(s) \in Whitespace THEN TrimStart(Tail(s)) ELSE s

RECURSIVE TrimEnd(_)
TrimEnd(s) ==
    IF s # <<>> /\ s[Len(s)] \in Whitespace
    THEN TrimEnd(SubSeq(s, 1, Len(s) - 1))
    ELSE s

Trim(s) == TrimEnd(TrimStart(s))

\* text.replace(/[^A-Za-z0-9]/g, '')
RECURSIVE StripNonAlnum(_)
StripNonAlnum(s) ==
    IF s = <<>> THEN <<>>
    ELSE IF Head(s) \in Alnum THEN <<Head(s)>> \o StripNonAlnum(Tail(s))
    ELSE StripNonAlnum(Tail(s))

\* String.prototype.substring(0, n)
Substring0(s, n) == SubSeq(s, 1, IF Len(s) < n THEN Len(s) ELSE n)

\* getApiKey, line 61
MsgKeyNotFound ==
    <<"A", "P", "I", " ", "k", "e", "y", " ", "n", "o", "t", " ", "f", "o",
      "u", "n", "d", ".", " ", "P", "l", "e", "a", "s", "e", " ", "s", "e",
      "t", " ", "i", "t", " ", "o", "n", " ", "t", "h", "e", " ", "o", "p",
      "t", "i", "o", "n", "s", " ", "p", "a", "g", "e", ".">>

\* executeOpenRouterRequest, line 225
MsgKeyMissing ==
    <<"A", "P", "I", " ", "k", "e", "y", " ", "i", "s", " ", "m", "i", "s",
      "s", "i", "n", "g", ".">>

\* executeOpenRouterRequest, line 260
MsgTimeoutPrefix ==
    <<"T", "i", "m", "e", "o", "u", "t", " ", "a", "f", "t", "e", "r", " ">>

\* the TypeError fetch rejects with, rethrown at line 264
MsgFailedToFetch ==
    <<"F", "a", "i", "l", "e", "d", " ", "t", "o", " ", "f", "e", "t", "c",
      "h">>

\* executeOpenRouterRequest, line 271
MsgApiErrorPrefix ==
    <<"A", "P", "I", " ", "e", "r", "r", "o", "r", " ">>

\* executeOpenRouterRequest, line 278
MsgEmptyResponse ==
    <<"E", "m", "p", "t", "y", " ", "r", "e", "s", "p", "o", "n", "s", "e",
      " ", "f", "r", "o", "m", " ", "A", "P", "I">>

\* solveCaptchaWithNoPeCHA, line 293
MsgInvalidImage ==
    <<"I", "n", "v", "a", "l", "i", "d", " ", "i", "m", "a", "g", "e", " ",
      "d", "a", "t", "a">>

\* solveCaptchaWithNoPeCHA, line 308
MsgSubmitErrorPrefix ==
    <<"N", "o", "P", "e", "C", "H", "A", " ", "s", "u", "b", "m", "i", "t",
      " ", "e", "r", "r", "o", "r", " ">>

\* solveCaptchaWithNoPeCHA, line 317
MsgNoJobId ==
    <<"N", "o", "P", "e", "C", "H", "A", ":", " ", "N", "o", " ", "j", "o",
      "b", " ", "I", "D", " ", "r", "e", "t", "u", "r", "n", "e", "d">>

\* solveCaptchaWithNoPeCHA, line 338
MsgRetrieveErrorPrefix ==
    <<"N", "o", "P", "e", "C", "H", "A", " ", "r", "e", "t", "r", "i", "e",
      "v", "e", " ", "e", "r", "r", "o", "r", " ">>

\* solveCaptchaWithNoPeCHA, line 350
MsgNoPeCHAPrefix ==
    <<"N", "o", "P", "e", "C", "H", "A", ":", " ">>

\* solveCaptchaWithNoPeCHA, line 356
MsgPollTimeout ==
    <<"N", "o", "P", "e", "C", "H", "A", ":", " ", "T", "i", "m", "e", "o",
      "u", "t", " ", "w", "a", "i", "t", "i", "n", "g", " ", "f", "o", "r",
      " ", "r", "e", "s", "u", "l", "t">>

\* cleanCaptchaText, line 372
MsgExtractPrefix ==
    <<"F", "a", "i", "l", "e", "d", " ", "t", "o", " ", "e", "x", "t", "r",
      "a", "c", "t", " ", "v", "a", "l", "i", "d", " ", "C", "A", "P", "T",
      "C", "H", "A", " ", "f", "r", "o", "m", ":", " ", "\"">>

\* cleanCaptchaText, line 372
MsgExtractSuffix ==
    <<".", ".", ".", "\"">>

\* solveWithFailover, line 216
MsgAllTiersExhausted ==
    <<"A", "l", "l", " ", "t", "i", "e", "r", "s", " ", "e", "x", "h", "a",
      "u", "s", "t", "e", "d">>

\* shouldFailover, line 133
NeedleEmpty ==
    <<"e", "m", "p", "t", "y">>

\* shouldFailover, line 134
NeedleFailedToExtract ==
    <<"F", "a", "i", "l", "e", "d", " ", "t", "o", " ", "e", "x", "t", "r",
      "a", "c", "t">>

\* chrome.runtime.lastError.message of a failed storage read (browser-defined)
MsgRuntimeLastError ==
    <<"s", "t", "o", "r", "a", "g", "e", " ", "e", "r", "r", "o", "r">>

(***************************************************************************)
(* Errors and results of the async functions                               *)
(***************************************************************************)
\* new Error(message) with err.statusCode = statusCode
MkError(message, statusCode) ==
    [name |-> "Error", statusCode |-> statusCode, message |-> message]

\* the TypeError a fetch rejects with when the network fails
NetworkError ==
    [name |-> "TypeError", statusCode |-> Undefined, message |-> MsgFailedToFetch]

\* let lastError = null
NullError ==
    [name |-> "null", statusCode |-> Undefined, message |-> <<>>]

\* a promise fulfilled with value
Resolved(value) == [ok |-> TRUE, value |-> value, error |-> NullError]

\* a promise rejected with error
Rejected(error) == [ok |-> FALSE, value |-> <<>>, error |-> error]

\* response.ok
ResponseOk(status) == status \in 200..299

(***************************************************************************)
(* Status and state management                                             *)
(***************************************************************************)
\* array[i] || 'Unknown' for a 0-based index
ModelAt(models, i) ==
    IF i + 1 \in DOMAIN models THEN models[i + 1] ELSE "Unknown"

getCurrentModelName(fs) ==
    IF fs.currentTier = 1 THEN ModelAt(tier1Models, fs.modelIndex)
    ELSE IF fs.currentTier = 2 THEN ModelAt(tier2Models, fs.modelIndex)
    ELSE "NoPeCHA"

getStatusIndicator(fs) ==
    CASE fs.currentTier = 1 -> <<"Tier1-", getCurrentModelName(fs)>>
      [] fs.currentTier = 2 -> <<"Tier2-", getCurrentModelName(fs)>>
      [] fs.currentTier = 3 -> <<"Tier3-NoPeCHA">>
      [] OTHER -> <<"All Down">>

\* checkCooldownRecovery with the cooldown still running at its last instant
checkCooldownRecoveryStrict(fs, t) ==
    IF fs.currentTier > 1 /\ TruthyNum(fs.lastFailoverTime)
       /\ t - fs.lastFailoverTime > cooldownMs
    THEN [currentTier |-> 1, modelIndex |-> 0, lastFailoverTime |-> Null]
    ELSE fs

\* the failover state after checkCooldownRecovery() at time t
checkCooldownRecovery(fs, t) ==
    IF fs.currentTier > 1 /\ TruthyNum(fs.lastFailoverTime)
       /\ t - fs.lastFailoverTime >= cooldownMs
    THEN [currentTier |-> 1, modelIndex |-> 0, lastFailoverTime |-> Null]
    ELSE fs

\* advanceFailover that does not stamp lastFailoverTime
advanceFailoverUnstamped(fs, t) ==
    LET maxIndex == IF fs.currentTier = 1 THEN Len(tier1Models) - 1
                    ELSE IF fs.currentTier = 2 THEN Len(tier2Models) - 1
                    ELSE 0
        wraps == fs.modelIndex + 1 > maxIndex
        nextTier == IF wraps THEN fs.currentTier + 1 ELSE fs.currentTier
        nextIndex == IF wraps THEN 0 ELSE fs.modelIndex + 1
    IN  [currentTier |-> IF nextTier > 3 THEN 4 ELSE nextTier,
         modelIndex |-> nextIndex,
         lastFailoverTime |-> fs.lastFailoverTime]

\* advanceFailover that keeps counting the index when it enters a tier
advanceFailoverKeepsIndex(fs, t) ==
    LET maxIndex == IF fs.currentTier = 1 THEN Len(tier1Models) - 1
                    ELSE IF fs.currentTier = 2 THEN Len(tier2Models) - 1
                    ELSE 0
        wraps == fs.modelIndex + 1 > maxIndex
        nextTier == IF wraps THEN fs.currentTier + 1 ELSE fs.currentTier
        nextIndex == fs.modelIndex + 1
    IN  [currentTier |-> IF nextTier > 3 THEN 4 ELSE nextTier,
         modelIndex |-> nextIndex,
         lastFailoverTime |-> t]

\* advanceFailover with maxIndex taken as the length of the tier's list
advanceFailoverPastLast(fs, t) ==
    LET maxIndex == IF fs.currentTier = 1 THEN Len(tier1Models)
                    ELSE IF fs.currentTier = 2 THEN Len(tier2Models)
                    ELSE 0
        wraps == fs.modelIndex + 1 > maxIndex
        nextTier == IF wraps THEN fs.currentTier + 1 ELSE fs.currentTier
        nextIndex == IF wraps THEN 0 ELSE fs.modelIndex + 1
    IN  [currentTier |-> IF nextTier > 3 THEN 4 ELSE nextTier,
         modelIndex |-> nextIndex,
         lastFailoverTime |-> t]

\* advanceFailover without the clamp of currentTier to 4
advanceFailoverUnclamped(fs, t) ==
    LET maxIndex == IF fs.currentTier = 1 THEN Len(tier1Models) - 1
                    ELSE IF fs.currentTier = 2 THEN Len(tier2Models) - 1
                    ELSE 0
        wraps == fs.modelIndex + 1 > maxIndex
        nextTier == IF wraps THEN fs.currentTier + 1 ELSE fs.currentTier
        nextIndex == IF wraps THEN 0 ELSE fs.modelIndex + 1
    IN  [currentTier |-> nextTier,
         modelIndex |-> nextIndex,
         lastFailoverTime |-> t]

\* the failover state after advanceFailover(reason) at time t
advanceFailover(fs, t) ==
    LET maxIndex == IF fs.currentTier = 1 THEN Len(tier1Models) - 1
                    ELSE IF fs.currentTier = 2 THEN Len(tier2Models) - 1
                    ELSE 0
        wraps == fs.modelIndex + 1 > maxIndex
        nextTier == IF wraps THEN fs.currentTier + 1 ELSE fs.currentTier
        nextIndex == IF wraps THEN 0 ELSE fs.modelIndex + 1
    IN  [currentTier |-> IF nextTier > 3 THEN 4 ELSE nextTier,
         modelIndex |-> nextIndex,
         lastFailoverTime |-> t]

\* shouldFailover that does not look for 'Failed to extract'
shouldFailoverIgnoresMalformed(statusCode, error) ==
    \/ statusCode \in triggerCodes
    \/ error.name = "AbortError"
    \/ Includes(error.message, NeedleEmpty)

\* shouldFailover that knows the rate-limit status only
shouldFailoverRateLimitOnly(statusCode, error) ==
    \/ statusCode = 429
    \/ error.name = "AbortError"
    \/ Includes(error.message, NeedleEmpty)
    \/ Includes(error.message, NeedleFailedToExtract)

shouldFailover(statusCode, error) ==
    \/ statusCode \in triggerCodes
    \/ error.name = "AbortError"
    \/ Includes(error.message, NeedleEmpty)
    \/ Includes(error.message, NeedleFailedToExtract)

(***************************************************************************)
(* API implementations                                                     *)
(***************************************************************************)
\* cleanCaptchaText that accepts a cleaned text of 2 to 9 characters
cleanCaptchaTextLoose(rawText) ==
    LET text == Trim(rawText)
        cleaned == StripNonAlnum(text)
    IN  IF Len(cleaned) >= 2 /\ Len(cleaned) <= 9
        THEN Resolved(cleaned)
        ELSE Rejected(MkError(MsgExtractPrefix \o Substring0(text, 50)
                                \o MsgExtractSuffix, Undefined))

cleanCaptchaText(rawText) ==
    LET text == Trim(rawText)
        cleaned == StripNonAlnum(text)
    IN  IF Len(cleaned) >= 3 /\ Len(cleaned) <= 8
        THEN Resolved(cleaned)
        ELSE Rejected(MkError(MsgExtractPrefix \o Substring0(text, 50)
                                \o MsgExtractSuffix, Undefined))

\* getApiKey() on the stored options; lastError is chrome.runtime.lastError
getApiKey(store, lastError) ==
    IF lastError
    THEN Rejected([name |-> "Object", statusCode |-> Undefined,
                   message |-> MsgRuntimeLastError])
    ELSE IF TruthyStr(store.openrouter_api_key)
    THEN Resolved(store.openrouter_api_key)
    ELSE Rejected(MkError(MsgKeyNotFound, Undefined))

\* executeOpenRouterRequest against a provider that answers with reply:
\* kind "abort" (the timeoutMs timer fired first), "reject" (the fetch
\* failed) or "http" (a response with status, error body and content)
executeOpenRouterRequest(apiKey, reply) ==
    IF ~TruthyStr(apiKey) THEN Rejected(MkError(MsgKeyMissing, 401))
    ELSE IF reply.kind = "abort"
    THEN Rejected(MkError(MsgTimeoutPrefix \o NumToString(timeoutMs)
                            \o <<"m", "s">>, 408))
    ELSE IF reply.kind = "reject" THEN Rejected(NetworkError)
    ELSE IF ~ResponseOk(reply.status)
    THEN Rejected(MkError(MsgApiErrorPrefix \o NumToString(reply.status)
                            \o <<":", " ">> \o reply.body, reply.status))
    ELSE IF reply.content = <<>> THEN Rejected(MkError(MsgEmptyResponse, 0))
    ELSE cleanCaptchaText(reply.content)

\* a poll loop whose ceiling is one attempt too high
WithinPollCeilingOffByOne(attempt) ==
    attempt <= maxPollAttempts + 1

\* the condition of the poll loop of solveCaptchaWithNoPeCHA
WithinPollCeiling(attempt) ==
    attempt <= maxPollAttempts

\* the throw that follows the poll loop
PollTimeout ==
    Rejected(MkError(MsgPollTimeout, 408))

\* one pass of the poll loop over the retrieve answer reply: settled is FALSE
\* when the pass ends without return or throw
RetrieveOutcome(reply) ==
    IF reply.kind = "reject"
    THEN [settled |-> TRUE, result |-> Rejected(NetworkError)]
    ELSE IF ~ResponseOk(reply.status)
    THEN IF reply.status = 202
         THEN [settled |-> FALSE, result |-> Rejected(NullError)]
         ELSE [settled |-> TRUE,
               result |-> Rejected(MkError(MsgRetrieveErrorPrefix
                                             \o NumToString(reply.status)
                                             \o <<":", " ">> \o reply.body,
                                           reply.status))]
    ELSE IF reply.data # <<>>
    THEN [settled |-> TRUE, result |-> Resolved(reply.data)]
    ELSE IF reply.error # <<>>
    THEN [settled |-> TRUE,
          result |-> Rejected(MkError(MsgNoPeCHAPrefix \o reply.error, 0))]
    ELSE [settled |-> FALSE, result |-> Rejected(NullError)]

\* the poll loop of solveCaptchaWithNoPeCHA from attempt on; the retrieve
\* endpoint answers script.pendingReply for the first script.pending
\* attempts and script.final afterwards
RECURSIVE PollNoPeCHA(_, _)
PollNoPeCHA(attempt, script) ==
    IF ~WithinPollCeiling(attempt) THEN PollTimeout
    ELSE
      LET reply == IF attempt <= script.pending THEN script.pendingReply
                   ELSE script.final
          outcome == RetrieveOutcome(reply)
      IN  IF outcome.settled THEN outcome.result
          ELSE PollNoPeCHA(attempt + 1, script)

\* solveCaptchaWithNoPeCHA from the submit answer to the poll loop: settled
\* is FALSE when a job id was read
SubmitOutcome(submit) ==
    IF submit.kind = "reject"
    THEN [settled |-> TRUE, result |-> Rejected(NetworkError)]
    ELSE IF ~ResponseOk(submit.status)
    THEN [settled |-> TRUE,
          result |-> Rejected(MkError(MsgSubmitErrorPrefix
                                        \o NumToString(submit.status)
                                        \o <<":", " ">> \o submit.body,
                                      submit.status))]
    ELSE IF submit.jobId = <<>>
    THEN [settled |-> TRUE, result |-> Rejected(MkError(MsgNoJobId, 0))]
    ELSE [settled |-> FALSE, result |-> Rejected(NullError)]

\* solveCaptchaWithNoPeCHA against a submit endpoint that answers with
\* submit and a retrieve endpoint that follows submit.script
solveCaptchaWithNoPeCHA(base64Image, submit) ==
    IF ~TruthyStr(base64Image) THEN Rejected(MkError(MsgInvalidImage, Undefined))
    ELSE IF SubmitOutcome(submit).settled THEN SubmitOutcome(submit).result
    ELSE PollNoPeCHA(1, submit.script)


(***************************************************************************)
(* Worker v16.0 (src/background.js): configuration and pure functions      *)
(***************************************************************************)
\* CONFIG.NOPECHA.key
NopechaKey == ""

\* CONFIG.OPENROUTER.models
OpenRouterModels ==
    <<"google/gemini-2.0-flash-exp:free", "qwen/qwen-2.5-vl-7b-instruct:free">>

\* s.charCodeAt(i), for the characters the modelled images are made of
CharCode(c) ==
    CASE c = "A" -> 65
      [] c = "B" -> 66
      [] c = "C" -> 67
      [] c = "a" -> 97
      [] OTHER -> 63

\* the loop of hash(s): h = (Math.imul(31, h) + s.charCodeAt(i)) | 0.  The
\* images modelled are short, so that h stays below 2^31, where Math.imul
\* and | 0 leave the value as it is.
RECURSIVE HashFrom(_, _)
HashFrom(h, s) ==
    IF s = <<>> THEN h
    ELSE HashFrom(31 * h + CharCode(Head(s)), Tail(s))

\* hash(s): the decimal string of the 32-bit value
hash(s) ==
    LET h == HashFrom(0, s)
    IN  IF h < 0 THEN <<"-">> \o NumToString(0 - h) ELSE NumToString(h)

\* raw.replace(/["' ]/g, '')
RECURSIVE StripQuotes(_)
StripQuotes(s) ==
    IF s = <<>> THEN <<>>
    ELSE IF Head(s) \in {"\"", "'", " "} THEN StripQuotes(Tail(s))
    ELSE <<Head(s)>> \o StripQuotes(Tail(s))

\* the length of the run of alphanumeric characters of s that starts at i
RECURSIVE AlnumRun(_, _)
AlnumRun(s, i) ==
    IF i <= Len(s) /\ s[i] \in Alnum THEN 1 + AlnumRun(s, i + 1) ELSE 0

\* an Error thrown by the v16 worker, by its message
Thrown(message) == [ok |-> FALSE, value |-> <<>>, error |-> message]

\* a value returned by a v16 solver
Returned(value) == [ok |-> TRUE, value |-> value, error |-> <<>>]

\* cleanText(raw): the leftmost match of /[A-Za-z0-9]{3,8}/ after the
\* quotes and spaces are removed
cleanText(raw) ==
    LET s == StripQuotes(raw)
        starts == {i \in 1..Len(s) : AlnumRun(s, i) >= 3}
        first == CHOOSE i \in starts : \A k \in starts : i <= k
        n == IF AlnumRun(s, first) > 8 THEN 8 ELSE AlnumRun(s, first)
    IN  IF starts = {} THEN Thrown(<<"UNPARSEABLE">>)
        ELSE Returned(SubSeq(s, first, first + n - 1))

\* solveNoPeCHA against an endpoint that answers with reply
solveNoPeCHA(key, reply) ==
    IF ~TruthyStr(key) THEN Thrown(<<"NOPECHA_KEY_MISSING">>)
    ELSE IF reply.kind = "reject" THEN Thrown(<<"Failed to fetch">>)
    ELSE IF ~ResponseOk(reply.status)
    THEN Thrown(<<"NOPECHA_">> \o NumToString(reply.status))
    ELSE IF reply.content # <<>> THEN Returned(reply.content)
    ELSE Thrown(<<"NOPECHA_EMPTY">>)

\* solveOpenRouter against an endpoint that answers with reply
solveOpenRouter(reply) ==
    IF reply.kind = "reject" THEN Thrown(<<"Failed to fetch">>)
    ELSE IF reply.status = 429 THEN Thrown(<<"RATE_LIMIT">>)
    ELSE IF ~ResponseOk(reply.status)
    THEN Thrown(<<"OPENROUTER_">> \o NumToString(reply.status))
    ELSE IF reply.content = <<>> THEN Thrown(<<"EMPTY_OR">>)
    ELSE cleanText(reply.content)

\* solveMistral against an endpoint that answers with reply; a body without
\* choices makes json.choices[0] throw a TypeError
solveMistral(reply) ==
    IF reply.kind = "reject" THEN Thrown(<<"Failed to fetch">>)
    ELSE IF ~ResponseOk(reply.status)
    THEN Thrown(<<"MISTRAL_">> \o NumToString(reply.status))
    ELSE IF reply.content = <<>> THEN Thrown(<<"TypeError">>)
    ELSE cleanText(reply.content)
(***************************************************************************)
(* What the environment can answer                                         *)
(***************************************************************************)
Reqs == 1..NumReqs

\* request.base64Image: the data URL of the captcha image
Images == {"data:image/png;base64,AAAA"}

\* what the options page can have stored under openrouter_api_key
ApiKeys == {"", "sk-or-v1"}

\* the instants at which something happens: the start of the worker and,
\* for each cooldown period after it, its last millisecond and its end
Instants ==
    {StartTime + ((i + 1) \div 2) * cooldownMs - (i % 2) : i \in 0..MaxInstant}

\* statuses of the non-ok responses the providers send
HttpErrorStatuses == {400, 401, 404, 429, 500, 502, 503}

\* bodies of the non-ok responses
Bodies == {<<>>}

\* choices[0].message.content of an ok response; <<>> when there is none
Contents ==
    {<<>>,
     <<" ", " ", "A", "B", "1", "2", "!", "!", " ">>,
     <<"A", "-", "B">>}

OpenRouterReplies ==
    {[kind |-> k, status |-> 0, body |-> <<>>, content |-> <<>>] :
        k \in {"abort", "reject"}}
    \union
    {[kind |-> "http", status |-> s, body |-> b, content |-> <<>>] :
        s \in HttpErrorStatuses, b \in Bodies}
    \union
    {[kind |-> "http", status |-> 200, body |-> <<>>, content |-> c] :
        c \in Contents}

\* retrieve answers that carry neither a result nor an error
PendingReplies ==
    {[kind |-> "http", status |-> s, body |-> <<>>, data |-> <<>>,
      error |-> <<>>] : s \in {200, 202}}

IncompleteJob ==
    <<"I", "n", "c", "o", "m", "p", "l", "e", "t", "e", " ", "j", "o", "b">>

\* retrieve answers that end the poll loop
FinalReplies ==
    {[kind |-> "reject", status |-> 0, body |-> <<>>, data |-> <<>>,
      error |-> <<>>],
     [kind |-> "http", status |-> 200, body |-> <<>>,
      data |-> <<"X", "Y", "7", "Z">>, error |-> <<>>],
     [kind |-> "http", status |-> 200, body |-> <<>>, data |-> <<>>,
      error |-> IncompleteJob],
     [kind |-> "http", status |-> 202, body |-> <<>>, data |-> <<>>,
      error |-> IncompleteJob],
     [kind |-> "http", status |-> 500, body |-> <<>>, data |-> <<>>,
      error |-> <<>>]}

PollScripts ==
    {[pending |-> n, pendingReply |-> p, final |-> f] :
        n \in {0, 1, maxPollAttempts}, p \in PendingReplies, f \in FinalReplies}

NoScript ==
    [pending |-> 0, pendingReply |-> CHOOSE p \in PendingReplies : TRUE,
     final |-> CHOOSE f \in FinalReplies : TRUE]

NoPeCHAReplies ==
    {[kind |-> "reject", status |-> 0, body |-> <<>>, jobId |-> <<>>,
      script |-> NoScript]}
    \union
    {[kind |-> "http", status |-> s, body |-> b, jobId |-> <<>>,
      script |-> NoScript] : s \in HttpErrorStatuses, b \in Bodies}
    \union
    {[kind |-> "http", status |-> 200, body |-> <<>>, jobId |-> <<>>,
      script |-> NoScript]}
    \union
    {[kind |-> "http", status |-> 200, body |-> <<>>,
      jobId |-> <<"j", "1">>, script |-> sc] : sc \in PollScripts}

\* one reply of each kind the orchestrator tells apart: a usable result, a
\* retryable failure and a failure that is not retryable
FewOpenRouterReplies ==
    {[kind |-> "http", status |-> 200, body |-> <<>>,
      content |-> <<" ", " ", "A", "B", "1", "2", "!", "!", " ">>],
     [kind |-> "http", status |-> 429, body |-> <<>>, content |-> <<>>],
     [kind |-> "http", status |-> 401, body |-> <<>>, content |-> <<>>]}

FewNoPeCHAReplies ==
    {[kind |-> "http", status |-> 200, body |-> <<>>,
      jobId |-> <<"j", "1">>,
      script |-> [pending |-> 1,
                  pendingReply |-> [kind |-> "http", status |-> 200,
                                    body |-> <<>>, data |-> <<>>,
                                    error |-> <<>>],
                  final |-> [kind |-> "http", status |-> 200, body |-> <<>>,
                             data |-> <<"X", "Y", "7", "Z">>,
                             error |-> <<>>]]],
     [kind |-> "http", status |-> 429, body |-> <<>>, jobId |-> <<>>,
      script |-> NoScript],
     [kind |-> "http", status |-> 401, body |-> <<>>, jobId |-> <<>>,
      script |-> NoScript]}

(***************************************************************************)
(* State                                                                   *)
(***************************************************************************)
VARIABLES
    failoverState,  \* v8.1: the worker's failoverState object
    now,            \* v8.1: Date.now()
    req,            \* v8.1: the solve_captcha messages and their handlers
    state,          \* v16: the worker's state object
    captchaCache,   \* v16: captchaCache in chrome.storage.local
    load,           \* v16: the storage read the worker issues when it starts
    job,            \* v16: the solve_captcha messages and their handlers
    lastAnswered,   \* v16: the message answered last, 0 before the first
    adapter,        \* v8.1: one run of solveCaptchaWithNoPeCHA, step by step
    cleaner,        \* v8.1: one call of cleanCaptchaText
    page            \* the two solvers of src/content.js on one page

vars ==
    <<failoverState, now, req, state, captchaCache, load, job, lastAnswered,
      adapter, cleaner, page>>

\* the variables of worker v8.1
failoverVars == <<failoverState, now, req>>

\* the variables of worker v16
surgeonVars == <<state, captchaCache, load, job, lastAnswered>>

\* a provider: the currentTier and currentIndex a loop iteration read
Provider(fs) == <<fs.currentTier, fs.modelIndex>>

\* tier-then-index order of the configured providers
ProviderOrder == <<<<1, 0>>, <<1, 1>>, <<2, 0>>, <<2, 1>>, <<3, 0>>>>

NoResponse == [keys |-> {}, text |-> <<>>, error |-> <<>>, status |-> <<>>]

\* sendResponse({ text, status: getStatusIndicator() })
TextResponse(text, fs) ==
    [keys |-> {"text", "status"}, text |-> text, error |-> <<>>,
     status |-> getStatusIndicator(fs)]

\* sendResponse({ error: error.message, status: getStatusIndicator() })
ErrorResponse(error, fs) ==
    [keys |-> {"error", "status"}, text |-> <<>>, error |-> error.message,
     status |-> getStatusIndicator(fs)]

InitialFailoverState ==
    [currentTier |-> 1, modelIndex |-> 0, lastFailoverTime |-> Null]

\* no provider: the loop has not read failoverState yet
NoProvider == <<0, 0>>

InitialRequest ==
    [pc |-> "idle", base64Image |-> "", apiKey |-> "",
     provider |-> NoProvider, lastError |-> NullError,
     invoked |-> 0, due |-> FALSE, blocked |-> FALSE, exit |-> "",
     response |-> NoResponse, before |-> InitialFailoverState]

\* the object {} and the entries a cache object can hold
EmptyCache == [h \in {} |-> <<>>]

\* cache[h]; <<>> when the object has no such property
CacheGet(cache, h) == IF h \in DOMAIN cache THEN cache[h] ELSE <<>>

\* cache[h] = text
CachePut(cache, h, text) ==
    [k \in DOMAIN cache \union {h} |-> IF k = h THEN text ELSE cache[k]]

\* state.lastSolved = null
NoCandidate == [hash |-> <<>>, text |-> <<>>]

\* const state = { currentTier: 1, lastSolved: null, cache: {} }
InitialState ==
    [currentTier |-> 1, lastSolved |-> NoCandidate, cache |-> EmptyCache]

\* captchaCache was never stored
NoStorage == [present |-> FALSE, value |-> EmptyCache]

\* no call in flight
NoStage == <<0, 0>>

InitialJob ==
    [pc |-> "idle", base64Image |-> <<>>, imgHash |-> <<>>,
     stage |-> NoStage, invoked |-> 0, response |-> NoResponse]

\* no retrieve answer yet
NoRetrieve ==
    [kind |-> "none", status |-> 0, body |-> <<>>, data |-> <<>>,
     error |-> <<>>]

\* solveCaptchaWithNoPeCHA before it is called: attempt is the loop variable,
\* polls the number of retrieve calls issued, reply the retrieve answer read
\* last and result what the function returned or threw
InitialAdapter ==
    [pc |-> "idle", attempt |-> 0, polls |-> 0, reply |-> NoRetrieve,
     result |-> Rejected(NullError)]

\* cleanCaptchaText before it is called with rawText
InitialCleaner(rawText) ==
    [pc |-> "idle", rawText |-> rawText, result |-> Rejected(NullError)]

\* the slots of the pending initiateSolver runs
Runs == 1 .. MaxRuns

\* what the content script finds in the document: the login form with
\* CaptchaImage and CaptchaInputText, a page with a login success indicator
\* and no form, or a page with neither
Doms == {"login", "account", "blank"}

\* the content script after init() on the login form: state of the v2.0
\* detector (isProcessing, isLoggedIn, solveAttempts, hasSuccessfullySolved;
\* cooling is TRUE from a success until cooldownAfterSuccessMs has passed;
\* loginTimer is the pending setTimeout of updateLoginState), the await each
\* initiateSolver run is at, isBusy of the v15.1 block and the await its
\* solve is at, the document and CaptchaInputText.value
InitialPage ==
    [isProcessing |-> FALSE, isLoggedIn |-> FALSE, solveAttempts |-> 0,
     cooling |-> FALSE, hasSuccessfullySolved |-> FALSE,
     loginTimer |-> FALSE, detector |-> [k \in Runs |-> "idle"],
     isBusy |-> FALSE, overwatch |-> "idle", dom |-> "login",
     value |-> <<>>]

Init ==
    /\ failoverState = InitialFailoverState
    /\ now = StartTime
    /\ req = [r \in Reqs |-> InitialRequest]
    /\ state = InitialState
    /\ captchaCache = NoStorage
    /\ load = [pending |-> TRUE, res |-> NoStorage, starts |-> 1]
    /\ job = [j \in Reqs |-> InitialJob]
    /\ lastAnswered = 0
    /\ adapter = InitialAdapter
    /\ cleaner = InitialCleaner(<<>>)
    /\ page = InitialPage
(***************************************************************************)
(* The solve handler                                                       *)
(*                                                                         *)
(* A handler runs without interruption from one await to the next: the     *)
(* worker is single-threaded, and a message or a settled fetch is a task   *)
(* of its own.  Each action below is one such run.  Two runs are shown in  *)
(* two steps, with nothing in between since both steps belong to one run:  *)
(* the run that receives the message (pc = "received" right after          *)
(* checkCooldownRecovery, then AwaitKey) and the run that replies          *)
(* (pc = "done" right after sendResponse, then Close).                     *)
(*                                                                         *)
(* req[r] holds the locals of handler r: base64Image, apiKey, lastError    *)
(* and provider (currentTier and currentIndex of the loop iteration).  Its *)
(* other fields describe what the handler did: invoked (the number of      *)
(* provider calls), due (whether the message found the position off        *)
(* Tier(1,0) with the cooldown over), blocked (whether it found the state  *)
(* Exhausted with the cooldown running), exit (how the handler ended) and  *)
(* before (failoverState at the start of the run shown in two steps).      *)
(***************************************************************************)

\* no run is in the middle of its two steps
Quiet == \A q \in Reqs : req[q].pc \notin {"received", "done"}

\* whether a message arriving at time t finds the position off Tier(1,0)
\* and the cooldown over
Due(fs, t) ==
    /\ Provider(fs) # <<1, 0>>
    /\ fs.lastFailoverTime # Null
    /\ t - fs.lastFailoverTime >= cooldownMs

\* whether a message arriving at time t finds the state Exhausted and the
\* cooldown still running
Blocked(fs, t) ==
    /\ fs.currentTier = 4
    /\ fs.lastFailoverTime # Null
    /\ t - fs.lastFailoverTime < cooldownMs

\* handleCaptchaSolve's catch block, and the reply it sends
Fail(rq, before, fs, error, how) ==
    [rq EXCEPT !.pc = "done", !.exit = how, !.before = before,
               !.response = ErrorResponse(error, fs)]

\* one more provider call of a request; the count stops at MaxInvoked
Counted(n) == IF n < MaxInvoked THEN n + 1 ELSE n

\* a loop that tests its condition after the body instead of before it
LoopHeadDoWhile(rq, before, fs) ==
    IF fs.currentTier <= 3 \/ rq.invoked = 0
    THEN [rq EXCEPT !.pc = "call", !.provider = Provider(fs),
                    !.invoked = Counted(@)]
    ELSE Fail(rq, before, fs,
              IF rq.lastError # NullError THEN rq.lastError
              ELSE MkError(MsgAllTiersExhausted, Undefined),
              "exhausted")

\* solveWithFailover from the head of its while loop to the next await,
\* or to the reply when the loop is left
LoopHead(rq, before, fs) ==
    IF fs.currentTier <= 3
    THEN [rq EXCEPT !.pc = "call", !.provider = Provider(fs),
                    !.invoked = Counted(@)]
    ELSE Fail(rq, before, fs,
              IF rq.lastError # NullError THEN rq.lastError
              ELSE MkError(MsgAllTiersExhausted, Undefined),
              "exhausted")

\* a catch block that advances before it asks shouldFailover
CatchAdvanceFirst(rq, fs, t, error) ==
    LET failed == [rq EXCEPT !.lastError = error]
    IN  IF shouldFailover(error.statusCode, error)
        THEN [fs |-> advanceFailover(fs, t),
              rq |-> LoopHead(failed, fs, advanceFailover(fs, t))]
        ELSE [fs |-> advanceFailover(fs, t),
              rq |-> Fail(failed, fs, advanceFailover(fs, t), error, "fatal")]

\* the catch block of solveWithFailover's loop body at time t, and what
\* follows it up to the next await: the request and the failover state
Catch(rq, fs, t, error) ==
    LET failed == [rq EXCEPT !.lastError = error]
    IN  IF shouldFailover(error.statusCode, error)
        THEN [fs |-> advanceFailover(fs, t),
              rq |-> LoopHead(failed, fs, advanceFailover(fs, t))]
        ELSE [fs |-> fs, rq |-> Fail(failed, fs, fs, error, "fatal")]

\* a success that puts the position back to Tier(1,0)
AfterSuccessReset(fs) == InitialFailoverState

\* the failover state after the provider call returned: solveWithFailover
\* returns the result and assigns nothing
AfterSuccess(fs) == fs

\* the provider call of a loop iteration
CallProvider(rq, reply) ==
    IF rq.provider[1] = 3 THEN solveCaptchaWithNoPeCHA(rq.base64Image, reply)
    ELSE executeOpenRouterRequest(rq.apiKey, reply)

\* onMessage solve_captcha: handleCaptchaSolve through
\* checkCooldownRecovery().  Messages are numbered as they arrive.
Receive(r) ==
    /\ Quiet
    /\ req[r].pc = "idle"
    /\ \A q \in Reqs : q < r => req[q].pc # "idle"
    /\ \E img \in Images :
         req' = [req EXCEPT ![r] =
                    [@ EXCEPT !.pc = "received", !.base64Image = img,
                              !.before = failoverState,
                              !.due = Due(failoverState, now),
                              !.blocked = Blocked(failoverState, now)]]
    /\ failoverState' = checkCooldownRecovery(failoverState, now)
    /\ UNCHANGED <<now, surgeonVars, adapter, cleaner, page>>

\* handleCaptchaSolve from there to await getApiKey()
AwaitKey(r) ==
    /\ req[r].pc = "received"
    /\ req' = [req EXCEPT ![r] =
                 [@ EXCEPT !.pc = "getKey", !.before = InitialFailoverState]]
    /\ UNCHANGED <<failoverState, now, surgeonVars, adapter, cleaner, page>>

\* getApiKey() settles: the reply of a failed read, or solveWithFailover
\* up to its first provider call.  The options page (save_options) can
\* store any key at any time, so the read finds any of them.
GetApiKeySettles(r) ==
    /\ Quiet
    /\ req[r].pc = "getKey"
    /\ \E lastError \in BOOLEAN, storage \in [openrouter_api_key : ApiKeys] :
         LET key == getApiKey(storage, lastError)
         IN  req' = [req EXCEPT ![r] =
                       IF key.ok
                       THEN LoopHead([@ EXCEPT !.apiKey = key.value],
                                     failoverState, failoverState)
                       ELSE Fail(@, failoverState, failoverState, key.error,
                                 "nokey")]
    /\ UNCHANGED <<failoverState, now, surgeonVars, adapter, cleaner, page>>

\* a provider call settles: the success reply, or the catch block and the
\* next loop iteration up to its provider call
ProviderSettlesWith(r, openRouter, noPeCHA) ==
    /\ Quiet
    /\ req[r].pc = "call"
    /\ \E reply \in IF req[r].provider[1] = 3 THEN noPeCHA ELSE openRouter :
         LET res == CallProvider(req[r], reply)
             c == Catch(req[r], failoverState, now, res.error)
         IN  IF res.ok
             THEN /\ req' = [req EXCEPT ![r] =
                              [@ EXCEPT !.pc = "done", !.exit = "success",
                                        !.before = failoverState,
                                        !.response =
                                          TextResponse(res.value,
                                                       failoverState)]]
                  /\ failoverState' = AfterSuccess(failoverState)
             ELSE /\ req' = [req EXCEPT ![r] = c.rq]
                  /\ failoverState' = c.fs
    /\ UNCHANGED <<now, surgeonVars, adapter, cleaner, page>>

\* providers that answer with one reply of each kind
ProviderSettles(r) ==
    ProviderSettlesWith(r, FewOpenRouterReplies, FewNoPeCHAReplies)

\* providers that answer with any reply
ProviderSettlesAny(r) ==
    ProviderSettlesWith(r, OpenRouterReplies, NoPeCHAReplies)

\* the handler that replied ends
Close(r) ==
    /\ req[r].pc = "done"
    /\ req' = [req EXCEPT ![r] = [InitialRequest EXCEPT !.pc = "closed"]]
    /\ UNCHANGED <<failoverState, now, surgeonVars, adapter, cleaner, page>>

\* time passes
Tick ==
    /\ Quiet
    /\ \E t \in Instants : t > now /\ now' = t
    /\ UNCHANGED <<failoverState, req, surgeonVars, adapter, cleaner, page>>

Next ==
    \/ \E r \in Reqs : Receive(r)
    \/ \E r \in Reqs : AwaitKey(r)
    \/ \E r \in Reqs : GetApiKeySettles(r)
    \/ \E r \in Reqs : ProviderSettles(r)
    \/ \E r \in Reqs : Close(r)
    \/ Tick

Spec == Init /\ [][Next]_vars

\* the content script sends a message only after the previous one was
\* answered
ReceiveSeq(r) ==
    /\ \A q \in Reqs : req[q].pc \in {"idle", "closed"}
    /\ Receive(r)

NextSeq ==
    \/ \E r \in Reqs : ReceiveSeq(r)
    \/ \E r \in Reqs : AwaitKey(r)
    \/ \E r \in Reqs : GetApiKeySettles(r)
    \/ \E r \in Reqs : ProviderSettlesAny(r)
    \/ \E r \in Reqs : Close(r)
    \/ Tick

SpecSeq == Init /\ [][NextSeq]_vars

\* all providers are down: every call is answered with 429
OutageOpenRouterReplies ==
    {[kind |-> "http", status |-> 429, body |-> <<>>, content |-> <<>>]}

OutageNoPeCHAReplies ==
    {[kind |-> "http", status |-> 429, body |-> <<>>, jobId |-> <<>>,
      script |-> NoScript]}

ProviderSettlesOutage(r) ==
    ProviderSettlesWith(r, OutageOpenRouterReplies, OutageNoPeCHAReplies)

\* the handler that replied ends, and the page sends its next message
\* under the same number
Recycle(r) ==
    /\ req[r].pc = "done"
    /\ req' = [req EXCEPT ![r] = InitialRequest]
    /\ UNCHANGED <<failoverState, now, surgeonVars, adapter, cleaner, page>>

\* overlapping requests, one after the other from each page, during an
\* outage of all providers
NextOutage ==
    \/ \E r \in Reqs : Receive(r)
    \/ \E r \in Reqs : AwaitKey(r)
    \/ \E r \in Reqs : GetApiKeySettles(r)
    \/ \E r \in Reqs : ProviderSettlesOutage(r)
    \/ \E r \in Reqs : Recycle(r)
    \/ Tick

SpecOutage == Init /\ [][NextOutage]_vars

(***************************************************************************)
(* Worker v16.0 (src/background.js)                                        *)
(*                                                                         *)
(* job[j] holds what the handler of message j keeps across its awaits:     *)
(* request.base64Image, imgHash and the call in flight (stage: tier and    *)
(* model index); invoked counts its provider calls and response is the     *)
(* argument of its sendResponse; once the message is answered only         *)
(* imgHash, invoked and response are kept.  load is the storage read of    *)
(* line 33: its result res is read when the worker starts and its callback *)
(* runs later.  Each action is one run of the worker between two awaits.   *)
(***************************************************************************)
\* request.base64Image; the first two have the same hash
SurgeonImages == {<<"A", "a">>, <<"B", "B">>, <<"C">>}

\* what a provider of the v16 worker can answer: a rate limit, a text that
\* cleanText rejects, and two texts it accepts
SurgeonReplies ==
    {[kind |-> "http", status |-> 429, content |-> <<>>]}
    \union
    {[kind |-> "http", status |-> 200, content |-> c] :
        c \in {<<"a", "b">>,
               <<"\"", "a", "b", " ", "c", "1", "\"">>,
               <<"X", "Y", "7", "Z">>}}

\* a cache answer without the status tag
CachedResponseUntagged(text) ==
    [keys |-> {"text"}, text |-> text, error |-> <<>>, status |-> <<>>]

\* sendResponse({ text: state.cache[imgHash], status: "Cached" })
CachedResponse(text) ==
    [keys |-> {"text", "status"}, text |-> text, error |-> <<>>,
     status |-> <<"Cached">>]

\* sendResponse({ text: result, status: `T${state.currentTier}` })
SolvedResponse(text, tier) ==
    [keys |-> {"text", "status"}, text |-> text, error |-> <<>>,
     status |-> <<"T">> \o NumToString(tier)]

\* sendResponse({ error: err.message })
FailedResponse(message) ==
    [keys |-> {"error"}, text |-> <<>>, error |-> message, status |-> <<>>]

\* a lookup that never finds an entry
CacheLookupMiss(cache, imgHash) == <<>>

\* the lookup state.cache[imgHash] of the solve_captcha handler
CacheLookup(cache, imgHash) == CacheGet(cache, imgHash)

\* a success that is also written to the cache
RecordSolvedCached(st, imgHash, text) ==
    [st EXCEPT !.lastSolved = [hash |-> imgHash, text |-> text],
               !.cache = CachePut(st.cache, imgHash, text)]

\* a success that leaves an earlier candidate in place
RecordSolvedFirstWins(st, imgHash, text) ==
    IF st.lastSolved # NoCandidate THEN st
    ELSE [st EXCEPT !.lastSolved = [hash |-> imgHash, text |-> text]]

\* state.lastSolved = { hash: imgHash, text: result }
RecordSolved(st, imgHash, text) ==
    [st EXCEPT !.lastSolved = [hash |-> imgHash, text |-> text]]

\* the body of the report_login_success handler when state.lastSolved is set
CommitPending(st) ==
    [st EXCEPT !.cache = CachePut(st.cache, st.lastSolved.hash,
                                  st.lastSolved.text),
               !.lastSolved = NoCandidate]

\* the tier runSolve works at when it starts at tier: without a NoPeCHA key
\* tier 1 sets state.currentTier = 2 and runs again
EnterTier(tier) == IF tier = 1 /\ ~TruthyStr(NopechaKey) THEN 2 ELSE tier

\* the first call of runSolve at tier
FirstStage(tier) ==
    IF tier = 1 THEN <<1, 0>> ELSE IF tier = 2 THEN <<2, 0>> ELSE <<3, 0>>

\* the solver awaited at stage, against an endpoint that answers with reply
CallSolver(stage, reply) ==
    IF stage[1] = 1 THEN solveNoPeCHA(NopechaKey, reply)
    ELSE IF stage[1] = 2 THEN solveOpenRouter(reply)
    ELSE solveMistral(reply)

\* onMessage solve_captcha: the answer from the cache, or runSolve up to
\* its first await.  Messages are numbered as they arrive.
SolveCaptcha(j) ==
    /\ job[j].pc = "idle"
    /\ \A k \in Reqs : k < j => job[k].pc # "idle"
    /\ \E img \in SurgeonImages :
         LET imgHash == hash(img)
             hit == CacheLookup(state.cache, imgHash)
             tier == EnterTier(state.currentTier)
         IN  IF hit # <<>>
             THEN /\ job' = [job EXCEPT ![j] =
                              [@ EXCEPT !.pc = "answered",
                                        !.imgHash = imgHash,
                                        !.response = CachedResponse(hit)]]
                  /\ lastAnswered' = j
                  /\ UNCHANGED state
             ELSE /\ job' = [job EXCEPT ![j] =
                              [@ EXCEPT !.pc = "call",
                                        !.base64Image = img,
                                        !.imgHash = imgHash,
                                        !.stage = FirstStage(tier),
                                        !.invoked = 1]]
                  /\ state' = [state EXCEPT !.currentTier = tier]
                  /\ UNCHANGED lastAnswered
    /\ UNCHANGED <<captchaCache, load, failoverVars, adapter, cleaner, page>>

\* the awaited solver settles: the rest of runSolve, or the second
\* OpenRouter model after the first one failed
SolverSettles(j) ==
    /\ job[j].pc = "call"
    /\ \E reply \in SurgeonReplies :
         LET res == CallSolver(job[j].stage, reply)
         IN  IF res.ok
             THEN /\ state' = RecordSolved(state, job[j].imgHash, res.value)
                  /\ job' = [job EXCEPT ![j] =
                              [@ EXCEPT !.pc = "answered",
                                        !.base64Image = <<>>,
                                        !.stage = NoStage,
                                        !.response =
                                          SolvedResponse(res.value,
                                                         state.currentTier)]]
                  /\ lastAnswered' = j
             ELSE IF job[j].stage = <<2, 0>>
             THEN /\ job' = [job EXCEPT ![j] =
                              [@ EXCEPT !.stage = <<2, 1>>,
                                        !.invoked = @ + 1]]
                  /\ UNCHANGED <<state, lastAnswered>>
             ELSE /\ state' = [state EXCEPT !.currentTier =
                                 (state.currentTier % 3) + 1]
                  /\ job' = [job EXCEPT ![j] =
                              [@ EXCEPT !.pc = "answered",
                                        !.base64Image = <<>>,
                                        !.stage = NoStage,
                                        !.response =
                                          FailedResponse(res.error)]]
                  /\ lastAnswered' = j
    /\ UNCHANGED <<captchaCache, load, failoverVars, adapter, cleaner, page>>

\* onMessage report_login_success with a candidate in state.lastSolved
ReportLoginSuccess ==
    /\ state.lastSolved # NoCandidate
    /\ state' = CommitPending(state)
    /\ captchaCache' = [present |-> TRUE, value |-> CommitPending(state).cache]
    /\ UNCHANGED <<load, job, lastAnswered, failoverVars, adapter, cleaner, page>>

\* the callback of chrome.storage.local.get(['captchaCache'])
LoadCache ==
    /\ load.pending
    /\ load' = [load EXCEPT !.pending = FALSE]
    /\ state' = IF load.res.present
                THEN [state EXCEPT !.cache = load.res.value]
                ELSE state
    /\ UNCHANGED <<captchaCache, job, lastAnswered, failoverVars, adapter, cleaner, page>>

\* the browser stops the idle worker and starts it again for an event; the
\* messages answered so far belong to the life that ended
Restart ==
    /\ load.starts < MaxStarts
    /\ \A j \in Reqs : job[j].pc # "call"
    /\ state' = InitialState
    /\ load' = [pending |-> TRUE, res |-> captchaCache,
                starts |-> load.starts + 1]
    /\ job' = [j \in Reqs |->
                IF job[j].pc = "answered"
                THEN [InitialJob EXCEPT !.pc = "closed"] ELSE job[j]]
    /\ lastAnswered' = 0
    /\ UNCHANGED <<captchaCache, failoverVars, adapter, cleaner, page>>

NextSurgeon ==
    \/ \E j \in Reqs : SolveCaptcha(j)
    \/ \E j \in Reqs : SolverSettles(j)
    \/ ReportLoginSuccess
    \/ LoadCache
    \/ Restart

SpecSurgeon == Init /\ [][NextSurgeon]_vars
(***************************************************************************)
(* Worker v8.1: solveCaptchaWithNoPeCHA step by step                       *)
(***************************************************************************)
\* answers of the submit endpoint
SubmitReplies ==
    {s \in NoPeCHAReplies : s.script = NoScript}

\* answers of the retrieve endpoint
RetrieveReplies ==
    PendingReplies \union FinalReplies

\* the function returned or threw
Settled(reply, result) ==
    [adapter EXCEPT !.pc = "settled", !.reply = reply, !.result = result]

\* the head of the poll loop with loop variable attempt, after the retrieve
\* answer reply: the next pass starts with sleep, or the loop ends
PollLoopHead(attempt, reply) ==
    IF WithinPollCeiling(attempt)
    THEN [adapter EXCEPT !.pc = "sleep", !.attempt = attempt,
                         !.reply = NoRetrieve]
    ELSE Settled(reply, PollTimeout)

\* solveCaptchaWithNoPeCHA is called and reaches the submit fetch
CallAdapter ==
    /\ adapter.pc = "idle"
    /\ \E img \in Images :
         adapter' = IF ~TruthyStr(img)
                    THEN Settled(NoRetrieve,
                                 Rejected(MkError(MsgInvalidImage, Undefined)))
                    ELSE [adapter EXCEPT !.pc = "submit"]
    /\ UNCHANGED <<failoverVars, surgeonVars, cleaner, page>>

\* the submit fetch settles
SubmitSettles ==
    /\ adapter.pc = "submit"
    /\ \E submit \in SubmitReplies :
         adapter' = IF SubmitOutcome(submit).settled
                    THEN Settled(NoRetrieve, SubmitOutcome(submit).result)
                    ELSE PollLoopHead(1, NoRetrieve)
    /\ UNCHANGED <<failoverVars, surgeonVars, cleaner, page>>

\* sleep(pollIntervalMs) resolves and the retrieve fetch is issued
Retrieve ==
    /\ adapter.pc = "sleep"
    /\ adapter' = [adapter EXCEPT !.pc = "retrieve", !.polls = @ + 1]
    /\ UNCHANGED <<failoverVars, surgeonVars, cleaner, page>>

\* the retrieve fetch settles
RetrieveSettles ==
    /\ adapter.pc = "retrieve"
    /\ \E reply \in RetrieveReplies :
         adapter' = IF RetrieveOutcome(reply).settled
                    THEN Settled(reply, RetrieveOutcome(reply).result)
                    ELSE PollLoopHead(adapter.attempt + 1, reply)
    /\ UNCHANGED <<failoverVars, surgeonVars, cleaner, page>>

\* the caller has the outcome; the function can be called again
AdapterDone ==
    /\ adapter.pc = "settled"
    /\ adapter' = InitialAdapter
    /\ UNCHANGED <<failoverVars, surgeonVars, cleaner, page>>

NextAdapter ==
    \/ CallAdapter
    \/ SubmitSettles
    \/ Retrieve
    \/ RetrieveSettles
    \/ AdapterDone

SpecAdapter == Init /\ [][NextAdapter]_vars

(***************************************************************************)
(* Worker v8.1 with providers that may stay silent                         *)
(***************************************************************************)
\* what fetch does when controller.abort() runs while it is pending
AbortReply ==
    [kind |-> "abort", status |-> 0, body |-> <<>>, content |-> <<>>]

\* the timer armed by executeOpenRouterRequest fires after timeoutMs while
\* the fetch is pending; solveCaptchaWithNoPeCHA arms no timer
TimerFires(r) ==
    ProviderSettlesWith(r, {AbortReply}, {})

NextTimed ==
    \/ \E r \in Reqs : ReceiveSeq(r)
    \/ \E r \in Reqs : AwaitKey(r)
    \/ \E r \in Reqs : GetApiKeySettles(r)
    \/ \E r \in Reqs : ProviderSettles(r)
    \/ \E r \in Reqs : TimerFires(r)
    \/ \E r \in Reqs : Close(r)
    \/ Tick

\* the worker's own steps, the storage read and the timer happen when they
\* can; a provider is free never to answer
SpecTimed ==
    /\ Init
    /\ [][NextTimed]_vars
    /\ \A r \in Reqs :
         /\ WF_vars(AwaitKey(r))
         /\ WF_vars(GetApiKeySettles(r))
         /\ WF_vars(TimerFires(r))
         /\ WF_vars(Close(r))

(***************************************************************************)
(* Worker v8.1: cleanCaptchaText on its own                                *)
(***************************************************************************)
\* a letter, a digit, a space and a punctuation mark
RawAlphabet == {"A", "7", " ", "!"}

\* the example of the specification: two spaces, AB12, two marks, a space
RawExample == <<" ", " ", "A", "B", "1", "2", "!", "!", " ">>

\* the texts of at most MaxRawLen characters, and the example
RawTexts ==
    UNION {[1..n -> RawAlphabet] : n \in 0..MaxRawLen} \union {RawExample}

\* the state before a call of cleanCaptchaText with any of the texts
InitCleaner ==
    /\ failoverState = InitialFailoverState
    /\ now = StartTime
    /\ req = [r \in Reqs |-> InitialRequest]
    /\ state = InitialState
    /\ captchaCache = NoStorage
    /\ load = [pending |-> TRUE, res |-> NoStorage, starts |-> 1]
    /\ job = [j \in Reqs |-> InitialJob]
    /\ lastAnswered = 0
    /\ adapter = InitialAdapter
    /\ page = InitialPage
    /\ \E rawText \in RawTexts : cleaner = InitialCleaner(rawText)

\* cleanCaptchaText(rawText) returns or throws
Clean ==
    /\ cleaner.pc = "idle"
    /\ cleaner' = [cleaner EXCEPT !.pc = "done",
                                  !.result = cleanCaptchaText(cleaner.rawText)]
    /\ UNCHANGED <<failoverVars, surgeonVars, adapter, page>>

NextCleaner == Clean

SpecCleaner == InitCleaner /\ [][NextCleaner]_vars

(***************************************************************************)
(* Worker v8.1 over an unbounded time: messages keep arriving              *)
(***************************************************************************)
\* the worker has run for one cooldown period
InitRecurring ==
    /\ failoverState = InitialFailoverState
    /\ now = StartTime + cooldownMs
    /\ req = [r \in Reqs |-> InitialRequest]
    /\ state = InitialState
    /\ captchaCache = NoStorage
    /\ load = [pending |-> TRUE, res |-> NoStorage, starts |-> 1]
    /\ job = [j \in Reqs |-> InitialJob]
    /\ lastAnswered = 0
    /\ adapter = InitialAdapter
    /\ cleaner = InitialCleaner(<<>>)
    /\ page = InitialPage

\* cooldownMs pass after the last advance.  Time is counted back from the
\* present: Date.now() keeps its value and the recorded lastFailoverTime
\* becomes cooldownMs older, so that every difference
\* Date.now() - lastFailoverTime is what the code computes
Elapse ==
    /\ Quiet
    /\ failoverState.lastFailoverTime = now
    /\ failoverState' =
         [failoverState EXCEPT !.lastFailoverTime = now - cooldownMs]
    /\ UNCHANGED <<now, req, surgeonVars, adapter, cleaner, page>>

NextRecurring ==
    \/ \E r \in Reqs : Receive(r)
    \/ \E r \in Reqs : AwaitKey(r)
    \/ \E r \in Reqs : GetApiKeySettles(r)
    \/ \E r \in Reqs : ProviderSettlesOutage(r)
    \/ \E r \in Reqs : Recycle(r)
    \/ Elapse

\* the event loop runs every callback that is ready.  The synchronous steps
\* (AwaitKey, Recycle) stay ready until they run; a settled promise is
\* taken up between two runs of other handlers, however many of them there
\* are.  Nothing obliges a page to send a message or time to pass
SpecRecurring ==
    /\ InitRecurring
    /\ [][NextRecurring]_vars
    /\ \A r \in Reqs :
         /\ WF_vars(AwaitKey(r))
         /\ SF_vars(GetApiKeySettles(r))
         /\ SF_vars(ProviderSettlesOutage(r))
         /\ WF_vars(Recycle(r))

(***************************************************************************)
(* Content script (src/content.js): the v2.0 detector and the v15.1 block  *)
(* run on the same page and watch the same CaptchaImage/CaptchaInputText.  *)
(* Mutations and timers can call checkForCaptcha and solve at any time.    *)
(***************************************************************************)
\* what the worker can answer to solve_captcha: a text or an error
SolveAnswers == {<<"X", "Y", "7", "Z">>, <<>>}

otherVars == <<failoverVars, surgeonVars, adapter, cleaner>>

\* a success indicator is in the document, or the form has gone after a
\* solve
checkIfLoggedIn(pg) ==
    \/ pg.dom = "account"
    \/ pg.hasSuccessfullySolved /\ pg.dom # "login"

\* cleanup() stops the observer and starts the logout watcher: the observer
\* runs while isLoggedIn is FALSE and the watcher while it is TRUE
updateLoginState(pg) ==
    IF pg.isLoggedIn THEN pg
    ELSE [pg EXCEPT !.isLoggedIn = checkIfLoggedIn(pg)]

resetState(pg) ==
    [pg EXCEPT !.isProcessing = FALSE, !.isLoggedIn = FALSE,
               !.solveAttempts = 0, !.cooling = FALSE,
               !.hasSuccessfullySolved = FALSE]

\* the runs of initiateSolver that have not left through finally
ActiveRuns(pg) == {k \in Runs : pg.detector[k] # "idle"}

FreeRun(pg) == CHOOSE k \in Runs \ ActiveRuns(pg) :
                  \A j \in Runs \ ActiveRuns(pg) : k <= j

\* initiateSolver up to await waitForVisibility
initiateSolver(pg) ==
    [pg EXCEPT !.isProcessing = TRUE, !.solveAttempts = @ + 1,
               !.detector[FreeRun(pg)] = "visibility"]

\* the guards of checkForCaptcha with no bound on the attempts
MayStartUnlimited(pg) ==
    /\ ~pg.isProcessing
    /\ ~pg.cooling
    /\ pg.dom = "login"
    /\ pg.value = <<>>

\* the guards of checkForCaptcha after updateLoginState
MayStart(pg) ==
    /\ ~pg.isProcessing
    /\ pg.solveAttempts < maxSolveAttempts
    /\ ~pg.cooling
    /\ pg.dom = "login"
    /\ pg.value = <<>>

checkForCaptcha(pg) ==
    LET u == updateLoginState(pg)
    IN  IF u.isLoggedIn THEN u
        ELSE IF MayStart(u) THEN initiateSolver(u) ELSE u

\* a run can be followed: at most MaxRuns runs are pending together
Room(pg) == MayStart(pg) => ActiveRuns(pg) # Runs

\* initiateSolver leaves through its finally block
DetectorEnds(pg, k) ==
    [pg EXCEPT !.detector[k] = "idle", !.isProcessing = FALSE]

\* checkForCaptcha, called by the debounce timer of the observer or by a
\* timer of init or of the logout watcher: the login is detected, or the
\* guards pass and initiateSolver runs up to await waitForVisibility
CheckForCaptcha ==
    /\ ~page.isLoggedIn
    /\ Room(page)
    /\ page' = checkForCaptcha(page)
    /\ page' # page
    /\ UNCHANGED otherVars

\* a poll of waitForVisibility that settles: aborted, visible, or timed out
DetectorSeesImage(k) ==
    /\ page.detector[k] = "visibility"
    /\ \E visible \in BOOLEAN :
         page' = IF page.isLoggedIn \/ ~page.isProcessing \/ ~visible
                 THEN DetectorEnds(page, k)
                 ELSE [page EXCEPT !.detector[k] = "sleep"]
    /\ UNCHANGED otherVars

\* the sleep after waitForVisibility is over: on to await capture_screen
\* unless the user has logged in
DetectorWakes(k) ==
    /\ page.detector[k] = "sleep"
    /\ page' = IF page.isLoggedIn THEN DetectorEnds(page, k)
               ELSE [page EXCEPT !.detector[k] = "capture"]
    /\ UNCHANGED otherVars

\* capture_screen is answered and the crop is done: solve_captcha is sent,
\* or an error ends the attempt
DetectorSends(k) ==
    /\ page.detector[k] = "capture"
    /\ \E ok \in BOOLEAN :
         page' = IF ok THEN [page EXCEPT !.detector[k] = "solve"]
                 ELSE DetectorEnds(page, k)
    /\ UNCHANGED otherVars

\* solve_captcha is answered to solveCaptcha; the text goes to the input
\* of the form if the form is still there
DetectorReceives(k) ==
    /\ page.detector[k] = "solve"
    /\ \E text \in SolveAnswers :
         page' = IF text # <<>>
                 THEN [DetectorEnds(page, k) EXCEPT
                         !.value = IF page.dom = "login" THEN text ELSE @,
                         !.hasSuccessfullySolved = TRUE,
                         !.cooling = TRUE,
                         !.loginTimer = TRUE]
                 ELSE DetectorEnds(page, k)
    /\ UNCHANGED otherVars

\* cooldownAfterSuccessMs has passed since lastSolveTime
CooldownEnds ==
    /\ page.cooling
    /\ page' = [page EXCEPT !.cooling = FALSE]
    /\ UNCHANGED otherVars

\* the timer set by solveCaptcha calls updateLoginState
LoginCheck ==
    /\ page.loginTimer
    /\ page' = [updateLoginState(page) EXCEPT !.loginTimer = FALSE]
    /\ UNCHANGED otherVars

\* checkForLogout of the logout watcher finds the form back and calls
\* resetState and checkForCaptcha, or finds no success indicator on the
\* login address and calls resetState; otherwise it keeps watching.  Its
\* timer (reactivateCheckMs) starts when the login is detected, so the
\* polls of waitForVisibility (visibilityPollMs) and the sleep
\* (postVisibilityDelayMs) of a pending run are over when it fires
CheckForLogout ==
    /\ page.isLoggedIn
    /\ page.dom # "account"
    /\ \A k \in Runs : page.detector[k] \notin {"visibility", "sleep"}
    /\ Room(resetState(page))
    /\ page' = IF page.dom = "login"
               THEN checkForCaptcha(resetState(page))
               ELSE resetState(page)
    /\ UNCHANGED otherVars

\* the user logs in or out, or the site replaces the document; a form that
\* appears has an empty input
DomChanges ==
    /\ \E d \in Doms \ {page.dom} :
         page' = [page EXCEPT !.dom = d, !.value = <<>>]
    /\ UNCHANGED otherVars

\* solve of the v15.1 block leaves through its finally block
OverwatchEnds(pg) ==
    [pg EXCEPT !.overwatch = "idle", !.isBusy = FALSE]

\* solve of the v15.1 block passes its guards and runs up to the await of
\* capture_screen
Solve ==
    /\ ~page.isBusy
    /\ page.dom = "login"
    /\ page.value = <<>>
    /\ page' = [page EXCEPT !.isBusy = TRUE, !.overwatch = "capture"]
    /\ UNCHANGED otherVars

\* capture_screen is answered and the crop is done: solve_captcha is sent,
\* or an error ends the run
OverwatchSends ==
    /\ page.overwatch = "capture"
    /\ \E ok \in BOOLEAN :
         page' = IF ok THEN [page EXCEPT !.overwatch = "solve"]
                 ELSE OverwatchEnds(page)
    /\ UNCHANGED otherVars

\* solve_captcha is answered to solve
OverwatchReceives ==
    /\ page.overwatch = "solve"
    /\ \E text \in SolveAnswers :
         page' = IF text # <<>> /\ page.dom = "login"
                 THEN [OverwatchEnds(page) EXCEPT !.value = text]
                 ELSE OverwatchEnds(page)
    /\ UNCHANGED otherVars

\* the user clicks the refresh link: the v15.1 click watcher empties the
\* input and schedules solve
Refresh ==
    /\ page.dom = "login"
    /\ page.value # <<>>
    /\ page' = [page EXCEPT !.value = <<>>]
    /\ UNCHANGED otherVars

NextPage ==
    \/ CheckForCaptcha
    \/ \E k \in Runs : DetectorSeesImage(k)
    \/ \E k \in Runs : DetectorWakes(k)
    \/ \E k \in Runs : DetectorSends(k)
    \/ \E k \in Runs : DetectorReceives(k)
    \/ CooldownEnds
    \/ LoginCheck
    \/ CheckForLogout
    \/ DomChanges
    \/ Solve
    \/ OverwatchSends
    \/ OverwatchReceives
    \/ Refresh

SpecPage == Init /\ [][NextPage]_vars


(***************************************************************************)
(* Properties                                                              *)
(***************************************************************************)
\* a provider call of handler r fails in this step
Failed(r) ==
    /\ req[r].pc = "call"
    /\ req'[r] # req[r]
    /\ req'[r].exit # "success"

\* handler r begins a provider call in this step
Invokes(r) ==
    /\ req'[r].pc = "call"
    /\ req'[r].invoked = req[r].invoked + 1

\* the position after p in tier-then-index order; Exhausted follows tier 3
NextPosition(p) ==
    CASE p = <<1, 0>> -> <<1, 1>>
      [] p = <<1, 1>> -> <<2, 0>>
      [] p = <<2, 0>> -> <<2, 1>>
      [] p = <<2, 1>> -> <<3, 0>>
      [] OTHER -> <<4, 0>>

\* C1: with requests handled one at a time, a request's first call goes to
\* the provider at the current position (tier1[0] when the position is
\* Tier(1,0)) and every later call of the request goes to the provider that
\* follows the one that just failed in the order tier1[0], tier1[1],
\* tier2[0], tier2[1], tier3; so no request calls a provider twice, and
\* none makes more than five calls.
C1_VisitsInOrder ==
    [][\A r \in Reqs :
         Invokes(r) =>
           /\ req'[r].invoked <= Len(ProviderOrder)
           /\ IF req[r].invoked = 0
              THEN req'[r].provider = Provider(failoverState)
              ELSE /\ req[r].provider # <<3, 0>>
                   /\ req'[r].provider = NextPosition(req[r].provider)]_vars

\* a request that started at tier1[0] is on its fifth call, at tier 3
C1_Witness ==
    \E r \in Reqs :
        /\ req[r].pc = "call"
        /\ req[r].invoked = 5
        /\ req[r].provider = <<3, 0>>

\* C2: currentTier is one of 1, 2, 3 and 4 in every reachable state, with
\* any interleaving of the requests.
C2_TierInRange == failoverState.currentTier \in 1..4

\* a request whose call failed after another request had exhausted the
\* tiers: advanceFailover ran at tier 4
C2_Witness ==
    \E r \in Reqs :
        /\ req[r].pc = "done"
        /\ req[r].exit = "exhausted"
        /\ req[r].invoked >= 1
        /\ req[r].before.currentTier = 4
        /\ failoverState.currentTier = 4

\* C3: when a solve request arrives with currentTier > 1 (tier 4 included),
\* the state becomes Tier(1,0) with lastFailoverTime null if the time since
\* lastFailoverTime is at least cooldownMs, and stays as it is otherwise.
C3_RecoveryAtCooldown ==
    [][\A r \in Reqs :
         (req[r].pc = "idle" /\ req'[r].pc = "received"
          /\ failoverState.currentTier > 1) =>
           IF now - failoverState.lastFailoverTime >= cooldownMs
           THEN failoverState' = [currentTier |-> 1, modelIndex |-> 0,
                                  lastFailoverTime |-> Null]
           ELSE failoverState' = failoverState]_vars

\* a request that arrived at Exhausted exactly cooldownMs after the last
\* advance, and found the state reset
C3_Witness ==
    \E r \in Reqs :
        /\ req[r].pc = "received"
        /\ req[r].before.currentTier = 4
        /\ now - req[r].before.lastFailoverTime = cooldownMs
        /\ failoverState = InitialFailoverState

\* C4: a request that arrives when the position is off Tier(1,0) and
\* cooldownMs has passed since the last advance makes its first call to
\* tier1[0].
C4_FirstCallToPreferred ==
    \A r \in Reqs :
        (req[r].pc = "call" /\ req[r].invoked = 1 /\ req[r].due) =>
            req[r].provider = <<1, 0>>

\* the error of a provider call that timed out
IsTimeout(error) ==
    \/ Includes(error.message, MsgTimeoutPrefix)
    \/ error.message = MsgPollTimeout

\* C5: a provider call that timed out is retryable: shouldFailover accepts
\* its error and the request does not end with that error.
C5_TimeoutRetryable ==
    \A r \in Reqs :
        IsTimeout(req[r].lastError) =>
            /\ shouldFailover(req[r].lastError.statusCode, req[r].lastError)
            /\ req[r].exit # "fatal"

\* C6: when a provider call fails with an error that is not retryable, the
\* request is answered with that error in the same step, no provider is
\* called again and failoverState is unchanged.
C6_NonRetryableFailsFast ==
    [][\A r \in Reqs :
         (Failed(r) /\ ~shouldFailover(req'[r].lastError.statusCode,
                                        req'[r].lastError)) =>
           /\ failoverState' = failoverState
           /\ req'[r].pc = "done"
           /\ req'[r].exit = "fatal"
           /\ req'[r].invoked = req[r].invoked
           /\ req'[r].response.keys = {"error", "status"}
           /\ req'[r].response.error = req'[r].lastError.message]_vars

\* a request answered with the 401 of its second provider, the position
\* still where the first failure left it
C6_Witness ==
    \E r \in Reqs :
        /\ req[r].pc = "done"
        /\ req[r].exit = "fatal"
        /\ req[r].lastError.statusCode = 401
        /\ req[r].invoked = 2
        /\ Provider(failoverState) = <<1, 1>>

\* C7: an ok response without content is retryable: shouldFailover accepts
\* its error and the request does not end with that error.
C7_EmptyRetryable ==
    \A r \in Reqs :
        req[r].lastError.message = MsgEmptyResponse =>
            /\ shouldFailover(req[r].lastError.statusCode, req[r].lastError)
            /\ req[r].exit # "fatal"

\* C8: a fetch that rejects without a status and without a timeout does not
\* end the request: the next provider is called.
C8_NetworkFailureRetried ==
    \A r \in Reqs :
        req[r].lastError.name = "TypeError" => req[r].exit # "fatal"

\* C9: a provider failure with a status in the trigger set moves the
\* position one step in tier-then-index order and stamps lastFailoverTime;
\* the request then calls the provider at the new position, or is answered
\* if the new position is Exhausted.
C9_TriggerCodeAdvancesOnce ==
    [][\A r \in Reqs :
         (Failed(r) /\ req'[r].lastError.statusCode
                          \in {429, 503, 404, 400, 500, 502}) =>
           /\ Provider(failoverState') = NextPosition(Provider(failoverState))
           /\ failoverState'.lastFailoverTime = now
           /\ IF failoverState'.currentTier <= 3
              THEN /\ Invokes(r)
                   /\ req'[r].provider = Provider(failoverState')
              ELSE /\ req'[r].pc = "done"
                   /\ req'[r].invoked = req[r].invoked]_vars

\* a request on its second call after a 502 from its first provider
C9_Witness ==
    \E r \in Reqs :
        /\ req[r].pc = "call"
        /\ req[r].invoked = 2
        /\ req[r].lastError.statusCode = 502

\* C10: a request that ends because the tiers are exhausted is answered
\* with the all-tiers-exhausted error.
C10_ExhaustionReported ==
    \A r \in Reqs :
        req[r].exit = "exhausted" =>
            req[r].response.error = MsgAllTiersExhausted

\* C11 as stated: a request that arrives at Exhausted while the cooldown
\* is running calls no provider, is answered with an error and leaves
\* failoverState as it found it.
C11_FailsFastAtExhausted ==
    \A r \in Reqs :
        req[r].blocked =>
            /\ req[r].invoked = 0
            /\ req[r].pc = "done" =>
                  /\ req[r].response.keys = {"error", "status"}
                  /\ failoverState = req[r].before

\* C11 amended: a request that arrives at Exhausted while the cooldown is
\* running, and finds the state still Exhausted when its key read is over,
\* calls no provider, is answered with an error and leaves failoverState
\* unchanged.
C11_FailsFastWhileExhausted ==
    [][\A r \in Reqs :
         (req[r].pc = "getKey" /\ req'[r].pc # "getKey" /\ req[r].blocked
          /\ failoverState.currentTier = 4) =>
           /\ req'[r].pc = "done"
           /\ req'[r].invoked = 0
           /\ req'[r].exit \in {"exhausted", "nokey"}
           /\ req'[r].response.keys = {"error", "status"}
           /\ req'[r].response.error # <<>>
           /\ failoverState' = failoverState]_vars

\* a request that arrived at Exhausted one millisecond before the end of
\* the cooldown and was answered that all tiers are exhausted
C11_Witness ==
    \E r \in Reqs :
        /\ req[r].blocked
        /\ req[r].pc = "done"
        /\ req[r].exit = "exhausted"
        /\ req[r].invoked = 0
        /\ req[r].response.error = MsgAllTiersExhausted
        /\ now - failoverState.lastFailoverTime = cooldownMs - 1

\* C16: the status of a reply with a text names the provider whose call
\* returned the text.
C16_StatusNamesProvider ==
    \A r \in Reqs :
        (req[r].pc = "done" /\ req[r].exit = "success") =>
            req[r].response.status =
                getStatusIndicator([currentTier |-> req[r].provider[1],
                                    modelIndex |-> req[r].provider[2],
                                    lastFailoverTime |-> Null])

\* C17: no request calls providers more than five times.
C17_AtMostFiveCalls == \A r \in Reqs : req[r].invoked <= 5

\* the retrieve answer carries neither a result nor an error
CarriesNothing(reply) ==
    /\ reply.kind = "http"
    /\ reply.data = <<>>
    /\ reply.error = <<>>

\* C18: after a successful submit solveCaptchaWithNoPeCHA issues at most
\* maxPollAttempts retrieve calls, and when the last of them, like those
\* before it, carries neither a result nor an error, the function throws
\* 'NoPeCHA: Timeout waiting for result' with statusCode 408; it throws that
\* error only after maxPollAttempts retrieve calls.
C18_PollsBoundedThenTimeout ==
    /\ adapter.polls <= maxPollAttempts
    /\ (/\ adapter.pc = "settled"
        /\ adapter.polls = maxPollAttempts
        /\ ResponseOk(adapter.reply.status)
        /\ CarriesNothing(adapter.reply))
           => adapter.result = Rejected(MkError(MsgPollTimeout, 408))
    /\ (/\ adapter.pc = "settled"
        /\ adapter.result = Rejected(MkError(MsgPollTimeout, 408)))
           => adapter.polls = maxPollAttempts

C18_Witness ==
    /\ adapter.pc = "settled"
    /\ adapter.polls = maxPollAttempts
    /\ adapter.reply.status = 200
    /\ CarriesNothing(adapter.reply)
    /\ adapter.result = Rejected(MkError(MsgPollTimeout, 408))

\* C19: a retrieve answer with status 202 never ends the poll loop with a
\* failure, whatever its body: when solveCaptchaWithNoPeCHA ends on a 202
\* answer, it ends either with a result or, at the attempt ceiling, with the
\* timeout error.
C19_StillProcessingKeepsPolling ==
    (/\ adapter.pc = "settled"
     /\ adapter.reply.kind = "http"
     /\ adapter.reply.status = 202)
        => \/ adapter.result.ok
           \/ /\ adapter.result = Rejected(MkError(MsgPollTimeout, 408))
              /\ adapter.polls = maxPollAttempts

\* C20: every provider call is bounded by a timeout: a solve_captcha request
\* that is waiting for a provider is eventually answered, by the provider's
\* answer or by the timeout error, even if the provider never responds.
C20_CallsEventuallyAnswered ==
    \A r \in Reqs : (req[r].pc = "call") ~> (req[r].pc = "done")

(***************************************************************************)
(* Properties of worker v16                                                *)
(***************************************************************************)
\* message j arrives in this step
Arrives(j) == job[j].pc = "idle" /\ job'[j].pc # "idle"

\* message j is answered in this step with the text of a provider
SolvedBy(j) ==
    /\ job[j].pc = "call"
    /\ job'[j].pc = "answered"
    /\ job'[j].response.text # <<>>

\* the report_login_success handler commits its candidate in this step
CommitStep ==
    /\ state.lastSolved # NoCandidate
    /\ state'.lastSolved = NoCandidate
    /\ load' = load

\* the fingerprint-text pairs of a cache object
Entries(cache) == {<<h, cache[h]>> : h \in DOMAIN cache}

\* the pairs retrievable from state.cache or from the stored captchaCache,
\* the result of a pending startup read included
Known ==
    Entries(state.cache) \union Entries(captchaCache.value)
    \union (IF load.pending THEN Entries(load.res.value) ELSE {})

\* C12 as stated: a request whose image has the fingerprint of an earlier
\* request that was answered with a text is answered with that text from
\* the cache, without a provider call.
C12_SecondFromCache ==
    [][\A j1, j2 \in Reqs :
         (Arrives(j2) /\ job[j1].pc = "answered"
          /\ job[j1].response.text # <<>>
          /\ job'[j2].imgHash = job[j1].imgHash) =>
           /\ job'[j2].pc = "answered"
           /\ job'[j2].invoked = 0
           /\ job'[j2].response.text = job[j1].response.text
           /\ job'[j2].response.status = <<"Cached">>]_vars

\* C12 amended: a request whose image has the fingerprint of an earlier
\* request that was answered with a text is answered with that text from
\* the cache, without a provider call, if state.cache holds that text for
\* the fingerprint when the request arrives.
C12_SecondFromCacheOnceCommitted ==
    [][\A j1, j2 \in Reqs :
         (Arrives(j2) /\ job[j1].pc = "answered"
          /\ job[j1].response.text # <<>>
          /\ job'[j2].imgHash = job[j1].imgHash
          /\ job[j1].imgHash \in DOMAIN state.cache
          /\ state.cache[job[j1].imgHash] = job[j1].response.text) =>
           /\ job'[j2].pc = "answered"
           /\ job'[j2].invoked = 0
           /\ job'[j2].response.text = job[j1].response.text
           /\ job'[j2].response.status = <<"Cached">>
           /\ UNCHANGED state]_vars

\* a request answered by a provider and a later one with the same
\* fingerprint answered from the cache
C12_Witness ==
    \E j1, j2 \in Reqs :
        /\ job[j1].pc = "answered" /\ job[j2].pc = "answered"
        /\ job[j1].invoked >= 1
        /\ job[j1].response.text # <<>>
        /\ job[j2].imgHash = job[j1].imgHash
        /\ job[j2].invoked = 0
        /\ job[j2].response.text = job[j1].response.text
        /\ job[j2].response.status = <<"Cached">>

\* C13: what a report_login_success commits is the fingerprint and the
\* text of the request that was answered last, and that request was
\* answered by a provider.
C13_CommitsLastAnswered ==
    [][CommitStep =>
         /\ lastAnswered # 0
         /\ job[lastAnswered].invoked >= 1
         /\ job[lastAnswered].imgHash = state.lastSolved.hash
         /\ job[lastAnswered].response.text = state.lastSolved.text]_vars

\* C14: a pair that was in neither state.cache nor the stored captchaCache
\* (nor on its way from storage in the startup read) appears there only in
\* a step of the report_login_success handler; the pair is then the
\* candidate in state.lastSolved, and the slot is empty afterwards.  A
\* provider success changes neither map.
C14_CommitOnlyOnConfirmation ==
    [][/\ (Known' # Known /\ Known' \ Known # {}) =>
            /\ state.lastSolved # NoCandidate
            /\ Known' \ Known =
                 {<<state.lastSolved.hash, state.lastSolved.text>>}
            /\ state'.lastSolved = NoCandidate
            /\ job' = job
       /\ \A j \in Reqs :
            SolvedBy(j) =>
              /\ state'.cache = state.cache
              /\ captchaCache' = captchaCache]_vars

\* a provider's text, committed to state.cache and to storage, with the
\* slot empty
C14_Witness ==
    \E j \in Reqs :
        /\ job[j].pc = "answered"
        /\ job[j].invoked >= 1
        /\ <<job[j].imgHash, job[j].response.text>> \in Entries(state.cache)
        /\ <<job[j].imgHash, job[j].response.text>>
              \in Entries(captchaCache.value)
        /\ state.lastSolved = NoCandidate

\* C15: a provider success makes its own fingerprint and text the one
\* candidate, whatever candidate was pending, and a confirmation changes
\* no entry but that of the candidate: a replaced candidate is not
\* committed.
C15_SingleCandidate ==
    [][/\ \A j \in Reqs :
            SolvedBy(j) =>
              state'.lastSolved = [hash |-> job[j].imgHash,
                                   text |-> job'[j].response.text]
       /\ CommitStep =>
            /\ DOMAIN state'.cache =
                 DOMAIN state.cache \union {state.lastSolved.hash}
            /\ \A h \in DOMAIN state.cache :
                 h # state.lastSolved.hash =>
                   state'.cache[h] = state.cache[h]]_vars

\* two provider successes for different fingerprints and then one
\* confirmation, in one life of the worker: only the later is in the cache
C15_Witness ==
    \E j1, j2 \in Reqs :
        /\ job[j1].pc = "answered" /\ job[j2].pc = "answered"
        /\ job[j1].invoked >= 1 /\ job[j2].invoked >= 1
        /\ job[j1].response.text # <<>> /\ job[j2].response.text # <<>>
        /\ job[j1].imgHash # job[j2].imgHash
        /\ load.starts = 1
        /\ state.lastSolved = NoCandidate
        /\ job[j1].imgHash \notin DOMAIN state.cache
        /\ Entries(state.cache) =
             {<<job[j2].imgHash, job[j2].response.text>>}


\* C21: when the credential of the provider at the current position is
\* absent, the request ends with an error and no provider is invoked, neither
\* that provider nor another one in its place: a request that misses the
\* cache of the v16 worker while state.currentTier is 1 and CONFIG.NOPECHA.key
\* is empty is answered with an error without a provider call.
C21_MissingCredentialReported ==
    [][\A j \in Reqs :
         (/\ Arrives(j)
          /\ state.currentTier = 1
          /\ NopechaKey = ""
          /\ job'[j].imgHash \notin DOMAIN state.cache) =>
            /\ job'[j].pc = "answered"
            /\ job'[j].response.keys = {"error"}
            /\ job'[j].invoked = 0]_vars

\* the error cleanCaptchaText throws for the trimmed text
MalformedResponse(text) ==
    MkError(MsgExtractPrefix \o text \o MsgExtractSuffix, Undefined)

\* C22: when an OpenRouter provider of the v8.1 worker returns a text whose
\* alphanumeric characters number fewer than 3 or more than 8 (A-B has 2),
\* the call fails with the malformed-response error, the position moves one
\* step and the request calls the provider at the next position.
C22_MalformedTriggersFailover ==
    [][\A r \in Reqs :
         (/\ Failed(r)
          /\ req[r].provider[1] \in {1, 2}
          /\ req'[r].lastError = MalformedResponse(<<"A", "-", "B">>)) =>
            /\ Provider(failoverState') = NextPosition(Provider(failoverState))
            /\ failoverState'.lastFailoverTime = now
            /\ Invokes(r)
            /\ req'[r].provider = Provider(failoverState')]_vars

\* a request on its second call after its first provider returned A-B
C22_Witness ==
    \E r \in Reqs :
        /\ req[r].pc = "call"
        /\ req[r].invoked = 2
        /\ req[r].lastError = MalformedResponse(<<"A", "-", "B">>)

\* a letter or a digit
IsAlphanumeric(c) ==
    c \in {"A", "B", "1", "2", "7"}

\* C23: cleanCaptchaText(raw) is raw without its characters that are not
\* letters or digits, in the same order, when that has 3 to 8 characters,
\* and a failure otherwise; two spaces, AB12, two exclamation marks and a
\* space give AB12.
C23_CleanMatchesReference ==
    cleaner.pc = "done" =>
        LET c == SelectSeq(cleaner.rawText, IsAlphanumeric)
        IN  /\ IF Len(c) >= 3 /\ Len(c) <= 8
               THEN cleaner.result.ok /\ cleaner.result.value = c
               ELSE ~cleaner.result.ok
            /\ cleaner.rawText = RawExample =>
                 cleaner.result.value = <<"A", "B", "1", "2">>

C23_Witness ==
    /\ cleaner.pc = "done"
    /\ cleaner.rawText = RawExample
    /\ cleaner.result.ok
    /\ cleaner.result.value = <<"A", "B", "1", "2">>

\* C24: an entry committed by a confirmation stays retrievable with the
\* same text whatever happens later, restarts of the worker and the startup
\* read of captchaCache included: no step removes or replaces an entry of
\* the stored captchaCache.
C24_CommittedEntriesPersist ==
    [][Entries(captchaCache.value) \subseteq Entries(captchaCache'.value)]_vars

\* C25: the content script serializes its recognition requests: at no time
\* are two solve_captcha messages for the CAPTCHA of the page waiting for the
\* worker's answer, one from the v2.0 detector and one from the v15.1 block.
C25_OneRequestInFlight ==
    ~(/\ \E k \in Runs : page.detector[k] = "solve"
      /\ page.overwatch = "solve")

\* C26: a solve_captcha request of the v16 worker whose fingerprint is in
\* state.cache changes nothing: state.currentTier, state.lastSolved,
\* state.cache and the stored captchaCache stay as they are, no provider is
\* invoked, and the answer is the cached text with the Cached status tag.
C26_CacheHitChangesNothing ==
    [][\A j \in Reqs :
         (Arrives(j) /\ job'[j].imgHash \in DOMAIN state.cache) =>
            /\ state' = state
            /\ captchaCache' = captchaCache
            /\ job'[j].pc = "answered"
            /\ job'[j].invoked = 0
            /\ job'[j].response =
                 [keys |-> {"text", "status"},
                  text |-> state.cache[job'[j].imgHash],
                  error |-> <<>>,
                  status |-> <<"Cached">>]]_vars

\* a request answered from the cache with the committed text
C26_Witness ==
    \E j \in Reqs :
        /\ job[j].pc = "answered"
        /\ job[j].invoked = 0
        /\ job[j].response.status = <<"Cached">>
        /\ job[j].imgHash \in DOMAIN state.cache
        /\ job[j].response.text = state.cache[job[j].imgHash]

\* C27: a successful provider call of the v8.1 worker leaves currentTier,
\* modelIndex and lastFailoverTime as they are, and a request that arrives
\* before the cooldown has elapsed since the last advance leaves them as
\* they are too: it starts at the position where the last advance left the
\* state.
C27_SuccessKeepsPosition ==
    [][\A r \in Reqs :
         /\ (/\ req[r].pc = "call"
             /\ req'[r].pc = "done"
             /\ req'[r].exit = "success") => failoverState' = failoverState
         /\ (/\ req[r].pc = "idle"
             /\ req'[r].pc = "received"
             /\ \/ failoverState.lastFailoverTime = Null
                \/ now - failoverState.lastFailoverTime < 300000) =>
                  failoverState' = failoverState]_vars

\* a request answered with a text by a provider after the first one, with the
\* position still there
C27_Witness ==
    \E r \in Reqs :
        /\ req[r].pc = "done"
        /\ req[r].exit = "success"
        /\ req[r].provider # <<1, 0>>
        /\ Provider(failoverState) = req[r].provider
        /\ failoverState.lastFailoverTime # Null

\* C28: with overlapping requests the position never moves past a provider
\* that has not failed: when the failure of a request's call advances the
\* position, the provider that failed is the one at the current position.
C28_AdvanceOnlyForCurrent ==
    [][\A r \in Reqs :
         (Failed(r) /\ failoverState' # failoverState) =>
            req[r].provider = Provider(failoverState)]_vars

\* C29: in every reachable state of the v8.1 worker, with any interleaving
\* of the requests, lastFailoverTime is null exactly when the position is
\* Tier(1,0).
C29_NullTimeIffFirstPosition ==
    (failoverState.lastFailoverTime = Null)
        <=> (failoverState.currentTier = 1 /\ failoverState.modelIndex = 0)

\* the position is back at Tier(1,0) with no timestamp after a recovery: the
\* request that arrived saw a later tier
C29_Witness ==
    \E r \in Reqs :
        /\ req[r].pc = "received"
        /\ req[r].before.currentTier > 1
        /\ req[r].before.lastFailoverTime # Null
        /\ failoverState.currentTier = 1
        /\ failoverState.modelIndex = 0
        /\ failoverState.lastFailoverTime = Null

\* C30: in every reachable state of the v8.1 worker, with any interleaving
\* of requests and advances, modelIndex is 0 or 1 when currentTier is 1 or
\* 2 and 0 when currentTier is 3 or 4, and the provider of a call in flight
\* is one of the five configured ones.
C30_ModelIndexValid ==
    /\ failoverState.currentTier \in {1, 2} =>
         failoverState.modelIndex \in {0, 1}
    /\ failoverState.currentTier \in {3, 4} => failoverState.modelIndex = 0
    /\ \A r \in Reqs :
         req[r].pc = "call" =>
           req[r].provider \in {<<1, 0>>, <<1, 1>>, <<2, 0>>, <<2, 1>>,
                                <<3, 0>>}

\* an advance was applied at tier 4: a call that was in flight when another
\* request exhausted the tiers has failed with 429
C30_Witness ==
    \E r \in Reqs :
        /\ req[r].pc = "done"
        /\ req[r].lastError.statusCode = 429
        /\ req[r].before = [currentTier |-> 4, modelIndex |-> 0,
                            lastFailoverTime |-> now]
        /\ failoverState.currentTier = 4
        /\ failoverState.modelIndex = 0

\* C31: provided every provider call returns or fails in the end, each
\* solve_captcha message is answered, by one sendResponse whose argument
\* carries either a text or an error and not both.
C31_AnsweredOnce ==
    \A r \in Reqs :
        (req[r].pc = "received") ~>
            (/\ req[r].pc = "done"
             /\ (req[r].response.text # <<>>) # (req[r].response.error # <<>>))

\* C32: at most one initiateSolver run of the v2.0 content script is active
\* at any time: no run starts while an earlier run has not reached its
\* finally block.
C32_OneRunActive == Cardinality(ActiveRuns(page)) <= 1

\* C33: state.solveAttempts never exceeds maxSolveAttempts, and once it
\* equals maxSolveAttempts no initiateSolver run starts until resetState
\* runs.
C33_AttemptsBounded ==
    /\ [](page.solveAttempts <= maxSolveAttempts)
    /\ [][page.solveAttempts = maxSolveAttempts =>
            \/ /\ page'.solveAttempts = maxSolveAttempts
               /\ ActiveRuns(page') \subseteq ActiveRuns(page)
            \/ /\ page.isLoggedIn /\ ~page'.isLoggedIn
               /\ page'.solveAttempts =
                    IF ActiveRuns(page') \subseteq ActiveRuns(page)
                    THEN 0 ELSE 1]_vars

\* the fifth attempt is over and every other guard of checkForCaptcha
\* passes: the form is there, its input is empty, no run is pending and no
\* cooldown is running
C33_Witness ==
    /\ page.solveAttempts = maxSolveAttempts
    /\ ~page.isLoggedIn
    /\ ~checkIfLoggedIn(page)
    /\ MayStartUnlimited(page)
    /\ ActiveRuns(page) = {}

=============================================================================
